---- MODULE Spec2Model ----
(***************************************************************************)
(* A model of the adder configuration library (src/adder.go, lines 1-349). *)
(* An Adder loads a YAML document into a generic tree (ReadInConfig) and   *)
(* decodes it into a typed structure (Unmarshal), letting environment      *)
(* variables override document values.                                     *)
(*                                                                         *)
(* Strings are sequences of one-character strings, so that ToLower,        *)
(* ToUpper, the key replacer and the base-10 parsers are computed and not  *)
(* assumed.  Go values of type any are tagged records.                     *)
(***************************************************************************)
EXTENDS Integers, Sequences, FiniteSets, TLC

VARIABLES configName, configType, configPaths, envReplacer, autoEnv,
          envBindings, configValues, env, call, running

adder == <<configName, configType, configPaths, envReplacer, autoEnv,
           envBindings, configValues>>

vars == <<configName, configType, configPaths, envReplacer, autoEnv,
          envBindings, configValues, env, call, running>>

-----------------------------------------------------------------------------
(* Bounds of the model.                                                    *)

MaxPaths == 1
MaxBindings == 1
MaxEnv == 2

-----------------------------------------------------------------------------
(* Strings.                                                                *)

UpperLetters == <<"A","B","C","D","E","F","G","H","I","J","K","L","M",
                  "N","O","P","Q","R","S","T","U","V","W","X","Y","Z">>
LowerLetters == <<"a","b","c","d","e","f","g","h","i","j","k","l","m",
                  "n","o","p","q","r","s","t","u","v","w","x","y","z">>
Digits == <<"0","1","2","3","4","5","6","7","8","9">>

IndexIn(c, letters) ==
    IF \E i \in 1..Len(letters) : letters[i] = c
    THEN CHOOSE i \in 1..Len(letters) : letters[i] = c
    ELSE 0

\* the lower-case letter of every upper-case letter, and the reverse
LowerTable ==
    [c \in {UpperLetters[i] : i \in 1..Len(UpperLetters)} |->
        LowerLetters[IndexIn(c, UpperLetters)]]
UpperTable ==
    [c \in {LowerLetters[i] : i \in 1..Len(LowerLetters)} |->
        UpperLetters[IndexIn(c, LowerLetters)]]

LowerChar(c) == IF c \in DOMAIN LowerTable THEN LowerTable[c] ELSE c

UpperChar(c) == IF c \in DOMAIN UpperTable THEN UpperTable[c] ELSE c

\* strings.ToLower
ToLower(s) == [i \in 1..Len(s) |-> LowerChar(s[i])]

\* strings.ToUpper
ToUpper(s) == [i \in 1..Len(s) |-> UpperChar(s[i])]

\* A *strings.Replacer built by strings.NewReplacer(old, new) with one-character
\* arguments; NilReplacer is the nil pointer.
NilReplacer == [nil |-> TRUE]
NewReplacer(old, new) == [nil |-> FALSE, old |-> old, new |-> new]
Replace(r, s) == [i \in 1..Len(s) |-> IF s[i] = r.old THEN r.new ELSE s[i]]

IsDigit(c) == IndexIn(c, Digits) # 0
DigitVal(c) == IndexIn(c, Digits) - 1

RECURSIVE DecimalValue(_)
DecimalValue(s) ==
    IF Len(s) = 0 THEN 0
    ELSE 10 * DecimalValue(SubSeq(s, 1, Len(s) - 1)) + DigitVal(s[Len(s)])

NoError == "nil"
ErrSyntax == "invalid syntax"
ErrNotPointer == "unmarshal target must be a non-nil pointer"
ErrNotStruct == "unmarshal target must be a pointer to struct"

\* strconv.ParseUint(s, 10, 64): digits only, no sign, not empty.  The strings of
\* the model are short, so the range error of a value above 2^64-1 cannot occur.
ParseUint(s) ==
    IF Len(s) = 0 \/ \E i \in 1..Len(s) : ~IsDigit(s[i])
    THEN [n |-> 0, err |-> ErrSyntax]
    ELSE [n |-> DecimalValue(s), err |-> NoError]

\* strconv.ParseInt(s, 10, 64): an optional sign, then ParseUint.
ParseInt(s) ==
    IF Len(s) = 0 THEN [n |-> 0, err |-> ErrSyntax]
    ELSE LET signed == s[1] \in {"+", "-"}
             digits == IF signed THEN Tail(s) ELSE s
             u == ParseUint(digits)
         IN  IF u.err # NoError THEN [n |-> 0, err |-> ErrSyntax]
             ELSE [n |-> IF s[1] = "-" THEN 0 - u.n ELSE u.n, err |-> NoError]

-----------------------------------------------------------------------------
(* Values of type any, as yaml.v3 decodes a document into map[string]any.  *)

StrV(s) == [t |-> "string", s |-> s]
IntV(n) == [t |-> "int", n |-> n]
\* a float64 with one decimal digit, held as a number of tenths
FloatV(tenths) == [t |-> "float64", tenths |-> tenths]
BoolV(b) == [t |-> "bool", b |-> b]
NilV == [t |-> "nil"]
MapV(m) == [t |-> "map", m |-> m]
ListV(l) == [t |-> "slice", l |-> l]

EmptyMap == <<>>

\* int64(v) of a float64: truncation toward zero
FloatToInt(tenths) ==
    IF tenths >= 0 THEN tenths \div 10 ELSE 0 - ((0 - tenths) \div 10)

Pow2(w) == IF w = 8 THEN 256 ELSE IF w = 16 THEN 65536 ELSE 0

\* SetUint as it would be if a number too large for the field were stored as
\* the largest number the field holds
SetUint_saturates(w, x) ==
    IF Pow2(w) = 0 THEN x
    ELSE IF x >= Pow2(w) THEN Pow2(w) - 1
    ELSE x

\* reflect.Value.SetUint on a field of w bits keeps the low w bits.  Fields of 32
\* and 64 bits hold every number of the model unchanged.
SetUint(w, x) == IF Pow2(w) = 0 THEN x ELSE x % Pow2(w)

\* reflect.Value.SetInt on a field of w bits: two's complement wrap-around.
SetInt(w, x) ==
    IF Pow2(w) = 0 THEN x
    ELSE LET m == x % Pow2(w)
         IN  IF m >= Pow2(w) \div 2 THEN m - Pow2(w) ELSE m

-----------------------------------------------------------------------------
(* The caller's target type: the structures of src/adder_test.go, with one  *)
(* field of every kind the decoder distinguishes.                          *)
(*                                                                         *)
(*   type Config struct {                                                  *)
(*       BaseURL        string                                             *)
(*       Debug          bool                                               *)
(*       Http           HTTPConfig                                         *)
(*       Db             DBConfig                                           *)
(*       AllowedOrigins []string `mapstructure:"allowed_origins"`          *)
(*       Ports          []int                                              *)
(*       Codes          []int32                                            *)
(*       Sizes          []uint                                             *)
(*       Flags          []bool                                             *)
(*       secret         string                                             *)
(*   }                                                                     *)
(*   type HTTPConfig struct { Port uint; Workers uint8; Backlog uint16;    *)
(*                            Retries int; Tls TLSConfig }                 *)
(*   type TLSConfig  struct { Depth int }                                  *)
(*   type DBConfig   struct { URL string `mapstructure:"url"`;             *)
(*                            Schema string; Level int8 }                  *)

Field(id, name, tag, kind, bits, elem) ==
    [id |-> id, name |-> name, tag |-> tag, kind |-> kind, bits |-> bits, elem |-> elem]

\* reflect.Value.CanSet: false for a field whose name starts with a lower-case
\* letter (an unexported field).
CanSet(f) == f.name[1] \notin DOMAIN UpperTable

Types ==
    [Config |-> <<
        Field("BaseURL", <<"B","a","s","e","U","R","L">>, <<>>, "string", 0, ""),
        Field("Debug", <<"D","e","b","u","g">>, <<>>, "bool", 0, ""),
        Field("Http", <<"H","t","t","p">>, <<>>, "struct", 0, "HTTPConfig"),
        Field("Db", <<"D","b">>, <<>>, "struct", 0, "DBConfig"),
        Field("AllowedOrigins",
              <<"A","l","l","o","w","e","d","O","r","i","g","i","n","s">>,
              <<"a","l","l","o","w","e","d","_","o","r","i","g","i","n","s">>,
              "slice", 0, "string"),
        Field("Ports", <<"P","o","r","t","s">>, <<>>, "slice", 0, "int"),
        Field("Codes", <<"C","o","d","e","s">>, <<>>, "slice", 0, "int32"),
        Field("Sizes", <<"S","i","z","e","s">>, <<>>, "slice", 0, "uint"),
        Field("Flags", <<"F","l","a","g","s">>, <<>>, "slice", 0, "bool"),
        Field("secret", <<"s","e","c","r","e","t">>, <<>>, "string", 0, "") >>,
     HTTPConfig |-> <<
        Field("Port", <<"P","o","r","t">>, <<>>, "uint", 64, ""),
        Field("Workers", <<"W","o","r","k","e","r","s">>, <<>>, "uint", 8, ""),
        Field("Backlog", <<"B","a","c","k","l","o","g">>, <<>>, "uint", 16, ""),
        Field("Retries", <<"R","e","t","r","i","e","s">>, <<>>, "int", 64, ""),
        Field("Tls", <<"T","l","s">>, <<>>, "struct", 0, "TLSConfig") >>,
     TLSConfig |-> <<
        Field("Depth", <<"D","e","p","t","h">>, <<>>, "int", 64, "") >>,
     DBConfig |-> <<
        Field("URL", <<"U","R","L">>, <<"u","r","l">>, "string", 0, ""),
        Field("Schema", <<"S","c","h","e","m","a">>, <<>>, "string", 0, ""),
        Field("Level", <<"L","e","v","e","l">>, <<>>, "int", 8, "") >>]

\* var cfg Config: every field at its zero value
ZeroConfig ==
    [BaseURL |-> <<>>, Debug |-> FALSE,
     Http |-> [Port |-> 0, Workers |-> 0, Backlog |-> 0, Retries |-> 0,
              Tls |-> [Depth |-> 0]],
     Db |-> [URL |-> <<>>, Schema |-> <<>>, Level |-> 0],
     AllowedOrigins |-> <<>>, Ports |-> <<>>, Codes |-> <<>>, Sizes |-> <<>>,
     Flags |-> <<>>, secret |-> <<>>]

\* a Config the caller filled with defaults before the call
PresetConfig ==
    [BaseURL |-> <<"d","f","l","t">>, Debug |-> TRUE,
     Http |-> [Port |-> 80, Workers |-> 1, Backlog |-> 5, Retries |-> 7,
              Tls |-> [Depth |-> 9]],
     Db |-> [URL |-> <<"d","f","l","t">>, Schema |-> <<"d","f","l","t">>, Level |-> 1],
     AllowedOrigins |-> << <<"d","f","l","t">> >>, Ports |-> <<1>>, Codes |-> <<1>>,
     Sizes |-> <<1>>, Flags |-> <<TRUE>>, secret |-> <<"d","f","l","t">>]

\* The argument v of Unmarshal(v any).
NilInterface == [kind |-> "nil"]
StructValue(val) == [kind |-> "struct", type |-> "Config", val |-> val]
NilPointer == [kind |-> "ptr", isNil |-> TRUE]
PointerToInt(n) == [kind |-> "ptr", isNil |-> FALSE, elem |-> "int", val |-> n]
PointerTo(type, val) ==
    [kind |-> "ptr", isNil |-> FALSE, elem |-> "struct", type |-> type, val |-> val]

ValidTargets == <<PointerTo("Config", ZeroConfig), PointerTo("Config", PresetConfig)>>
InvalidTargets == <<NilInterface, StructValue(ZeroConfig), NilPointer, PointerToInt(5)>>

-----------------------------------------------------------------------------
(* The file system and the environment the program runs in.                *)

application == <<"a","p","p","l","i","c","a","t","i","o","n">>
yaml == <<"y","a","m","l">>

httpsA == <<"h","t","t","p","s",":","/","/","a">>
httpsB == <<"h","t","t","p","s",":","/","/","b">>
fromConfig == <<"f","r","o","m","-","c","o","n","f","i","g">>
public == <<"p","u","b","l","i","c">>

k_baseurl == <<"b","a","s","e","u","r","l">>
k_baseUrl == <<"b","a","s","e","U","r","l">>
k_debug == <<"d","e","b","u","g">>
k_http == <<"h","t","t","p">>
k_port == <<"p","o","r","t">>
k_workers == <<"w","o","r","k","e","r","s">>
k_backlog == <<"b","a","c","k","l","o","g">>
k_retries == <<"r","e","t","r","i","e","s">>
k_tls == <<"t","l","s">>
k_depth == <<"d","e","p","t","h">>
k_db == <<"d","b">>
k_url == <<"u","r","l">>
k_schema == <<"s","c","h","e","m","a">>
k_level == <<"l","e","v","e","l">>
k_allowed_origins == <<"a","l","l","o","w","e","d","_","o","r","i","g","i","n","s">>
k_ports == <<"p","o","r","t","s">>
k_codes == <<"c","o","d","e","s">>
k_sizes == <<"s","i","z","e","s">>
k_flags == <<"f","l","a","g","s">>
k_secret == <<"s","e","c","r","e","t">>
k_extra == <<"e","x","t","r","a">>

\* A document in which every section is present and well typed; the key of
\* BaseURL is written in camel case, and there is a key no field matches.
DocFull ==
    (k_baseUrl :> StrV(httpsA)) @@
    (k_debug :> BoolV(TRUE)) @@
    (k_http :> MapV((k_port :> IntV(8080)) @@ (k_workers :> IntV(4)) @@
                    (k_backlog :> FloatV(30)) @@ (k_retries :> IntV(3)) @@
                    (k_tls :> MapV(k_depth :> IntV(2))))) @@
    (k_db :> MapV((k_url :> StrV(fromConfig)) @@ (k_schema :> StrV(public)))) @@
    (k_allowed_origins :> ListV(<<StrV(httpsA), StrV(httpsB)>>)) @@
    (k_ports :> ListV(<<IntV(80), IntV(443)>>)) @@
    (k_codes :> ListV(<<IntV(7), IntV(8)>>)) @@
    (k_sizes :> ListV(<<IntV(1), IntV(2)>>)) @@
    (k_flags :> ListV(<<BoolV(FALSE), BoolV(TRUE)>>)) @@
    (k_secret :> StrV(public)) @@
    (k_extra :> IntV(1))

\* A document with values the target fields cannot take, and no db section:
\* a sequence with elements of the wrong type, a scalar and a null where a
\* sequence is expected.
DocOdd ==
    (k_baseurl :> StrV(httpsB)) @@
    (k_debug :> StrV(<<"y","e","s">>)) @@
    (k_http :> MapV((k_port :> IntV(0 - 1)) @@ (k_workers :> FloatV(25)) @@
                    (k_backlog :> FloatV(0 - 25)) @@ (k_retries :> StrV(<<"x">>)) @@
                    (k_tls :> NilV))) @@
    (k_allowed_origins :> ListV(<<StrV(httpsB), IntV(5), StrV(httpsA)>>)) @@
    (k_ports :> ListV(<<IntV(80), StrV(<<"x">>), FloatV(25), BoolV(TRUE)>>)) @@
    (k_codes :> ListV(<<StrV(<<"x">>), NilV>>)) @@
    (k_sizes :> StrV(<<"x">>)) @@
    (k_flags :> NilV)

\* The document of a file named application.yml.
DocYml == k_http :> MapV(k_port :> IntV(9090))

\* What a file named application.toml holds: key = "value".
DocToml == <<"k","e","y">> :> StrV(<<"v","a","l","u","e">>)

\* A document with numbers that do not fit the fields they are for: 300 for
\* the 8-bit workers, 70000 for the 16-bit backlog, 200 for the signed 8-bit
\* level.
DocWide ==
    (k_http :> MapV((k_port :> IntV(8080)) @@ (k_workers :> IntV(300)) @@
                    (k_backlog :> IntV(70000)))) @@
    (k_db :> MapV((k_url :> StrV(fromConfig)) @@ (k_level :> IntV(200))))

Dirs == {"cfg", "odd"}

\* the directories with the well-typed document and with the wide numbers
WidthDirs == {"cfg", "wide"}

\* the directories of the file system: alt holds application.yml alone
AllDirs == {"cfg", "odd", "alt"}

yml == <<"y","m","l">>
Yaml == <<"Y","a","m","l">>
toml == <<"t","o","m","l">>

\* the arguments given to SetConfigType
ConfigTypes == {yaml, yml, Yaml, toml}

\* filepath.Join(path, name): the files of the model are named by directory
\* and file name.
Join(path, name) == <<path, name>>

Files ==
    (Join("cfg", application \o <<".">> \o yaml) :> DocFull) @@
    (Join("cfg", application \o <<".">> \o yml) :> DocYml) @@
    (Join("cfg", application \o <<".">> \o toml) :> DocToml) @@
    (Join("odd", application \o <<".">> \o yaml) :> DocOdd) @@
    (Join("alt", application \o <<".">> \o yml) :> DocYml) @@
    (Join("wide", application \o <<".">> \o yaml) :> DocWide)

\* os.Stat(candidate) succeeds
FileExists(candidate) == candidate \in DOMAIN Files

DATABASE_URL == <<"D","A","T","A","B","A","S","E","_","U","R","L">>
DB_URL == <<"D","B","_","U","R","L">>
HTTP_PORT == <<"H","T","T","P","_","P","O","R","T">>
HTTP_TLS_DEPTH == <<"H","T","T","P","_","T","L","S","_","D","E","P","T","H">>

EnvNames == {DATABASE_URL, DB_URL, HTTP_PORT, HTTP_TLS_DEPTH}

\* the values each variable is given; "" is a variable that is set but empty
EnvValues(name) ==
    CASE name = DATABASE_URL -> {<<>>, <<"9","1">>, <<"x">>}
      [] name = DB_URL -> {<<"a">>}
      [] name = HTTP_PORT -> {<<>>, <<"9","2">>, <<"-","5">>, <<"x">>}
      [] name = HTTP_TLS_DEPTH -> {<<"-","5">>, <<"x">>}

\* the variable AutomaticEnv derives for the field Debug, and the values it is
\* given
DEBUG == <<"D","E","B","U","G">>
DebugValues == {<<"t","r","u","e">>, <<"1">>, <<"T","R","U","E">>, <<"0">>,
                <<"y","e","s">>}

\* the variables AutomaticEnv derives for the structure field Http and for
\* the sequence field AllowedOrigins, next to the one of the nested Http.Port
HTTP == <<"H","T","T","P">>
ALLOWED_ORIGINS == <<"A","L","L","O","W","E","D","_","O","R","I","G","I","N","S">>
ContainerNames == {HTTP, ALLOWED_ORIGINS, HTTP_PORT}
ContainerValue(name) ==
    CASE name = HTTP -> <<"x">>
      [] name = ALLOWED_ORIGINS -> <<"a">>
      [] name = HTTP_PORT -> <<"9","2">>

\* the variables AutomaticEnv derives for the narrow integer fields, and the
\* base-10 numbers they are given: some fit the field, some do not
HTTP_WORKERS == <<"H","T","T","P","_","W","O","R","K","E","R","S">>
HTTP_BACKLOG == <<"H","T","T","P","_","B","A","C","K","L","O","G">>
DB_LEVEL == <<"D","B","_","L","E","V","E","L">>
WidthNames == {HTTP_WORKERS, HTTP_BACKLOG, DB_LEVEL}
WidthValues(name) ==
    CASE name = HTTP_WORKERS -> {<<"3","0","0">>, <<"2","5","6">>, <<"4","4">>}
      [] name = HTTP_BACKLOG -> {<<"7","0","0","0","0">>}
      [] name = DB_LEVEL -> {<<"2","0","0">>, <<"-","2","0","0">>, <<"1","2","7">>}

\* keys and variables handed to BindEnv
BindKeys == {<<"D","b",".","U","R","L">>, <<"h","t","t","p",".","p","o","r","t">>}
BindVars == {DATABASE_URL}

\* os.Getenv: the value of a set variable, "" for one that is not set
Getenv(name) == IF name \in DOMAIN env THEN env[name] ELSE <<>>

-----------------------------------------------------------------------------
(* The decoder.                                                            *)

\* getEnvValue as it would be if a binding whose variable is empty or not set
\* fell through to the automatically derived variable
getEnvValue_fallsThrough(key) ==
    LET lowerKey == ToLower(key)
        bound == IF lowerKey \in DOMAIN envBindings
                 THEN Getenv(envBindings[lowerKey]) ELSE <<>>
    IN  IF bound # <<>> THEN bound
        ELSE IF autoEnv
             THEN LET envKey == ToUpper(key)
                  IN  Getenv(IF ~envReplacer.nil THEN Replace(envReplacer, envKey)
                             ELSE envKey)
             ELSE <<>>

\* (*Adder).getEnvValue
getEnvValue(key) ==
    LET lowerKey == ToLower(key)
    IN  IF lowerKey \in DOMAIN envBindings
        THEN Getenv(envBindings[lowerKey])
        ELSE IF autoEnv
             THEN LET envKey == ToUpper(key)
                  IN  Getenv(IF ~envReplacer.nil THEN Replace(envReplacer, envKey)
                             ELSE envKey)
             ELSE <<>>

\* setFieldFromString as it would be with the parse error dropped: text that
\* does not parse leaves the number 0 and no error.
setFieldFromString_swallow(f, cur, value) ==
    CASE f.kind = "string" -> [val |-> value, err |-> NoError]
      [] f.kind = "int" -> [val |-> SetInt(f.bits, ParseInt(value).n), err |-> NoError]
      [] f.kind = "uint" -> [val |-> SetUint(f.bits, ParseUint(value).n), err |-> NoError]
      [] f.kind = "bool" ->
            [val |-> (value = <<"t","r","u","e">> \/ value = <<"1">>), err |-> NoError]
      [] OTHER -> [val |-> cur, err |-> NoError]

\* setFieldFromString as it would be with strconv.ParseBool for a boolean
\* field: more spellings of true, and an error for text that is no boolean
setFieldFromString_parseBool(f, cur, value) ==
    CASE f.kind = "string" -> [val |-> value, err |-> NoError]
      [] f.kind = "int" ->
            LET p == ParseInt(value)
            IN  IF p.err # NoError THEN [val |-> cur, err |-> p.err]
                ELSE [val |-> SetInt(f.bits, p.n), err |-> NoError]
      [] f.kind = "uint" ->
            LET p == ParseUint(value)
            IN  IF p.err # NoError THEN [val |-> cur, err |-> p.err]
                ELSE [val |-> SetUint(f.bits, p.n), err |-> NoError]
      [] f.kind = "bool" ->
            IF value \in {<<"t","r","u","e">>, <<"1">>, <<"T","R","U","E">>, <<"t">>}
            THEN [val |-> TRUE, err |-> NoError]
            ELSE IF value \in {<<"f","a","l","s","e">>, <<"0">>, <<"f">>}
            THEN [val |-> FALSE, err |-> NoError]
            ELSE [val |-> cur, err |-> ErrSyntax]
      [] OTHER -> [val |-> cur, err |-> NoError]

\* setFieldFromString: the field's new value and the error returned
setFieldFromString(f, cur, value) ==
    CASE f.kind = "string" -> [val |-> value, err |-> NoError]
      [] f.kind = "int" ->
            LET p == ParseInt(value)
            IN  IF p.err # NoError THEN [val |-> cur, err |-> p.err]
                ELSE [val |-> SetInt(f.bits, p.n), err |-> NoError]
      [] f.kind = "uint" ->
            LET p == ParseUint(value)
            IN  IF p.err # NoError THEN [val |-> cur, err |-> p.err]
                ELSE [val |-> SetUint(f.bits, p.n), err |-> NoError]
      [] f.kind = "bool" ->
            [val |-> (value = <<"t","r","u","e">> \/ value = <<"1">>), err |-> NoError]
      [] OTHER -> [val |-> cur, err |-> NoError]

\* sliceElem as it would be without the float64 case of the integer elements
sliceElem_noFloat(elemKind, item) ==
    CASE elemKind = "string" -> IF item.t = "string" THEN item.s ELSE <<>>
      [] elemKind = "int" -> IF item.t = "int" THEN item.n ELSE 0
      [] elemKind = "bool" -> FALSE
      [] OTHER -> 0

\* one element of the slice setSliceField builds: the converted item, or the
\* zero value of the element type
sliceElem(elemKind, item) ==
    CASE elemKind = "string" -> IF item.t = "string" THEN item.s ELSE <<>>
      [] elemKind = "int" ->
            IF item.t = "int" THEN item.n
            ELSE IF item.t = "float64" THEN FloatToInt(item.tenths)
            ELSE 0
      [] elemKind = "bool" -> FALSE
      [] OTHER -> 0

\* setSliceField as it would be if it appended the items to the slice it made
\* with their number as its length: the zero values come first.
setSliceField_appended(f, cur, value) ==
    IF value.t # "slice" THEN cur
    ELSE [i \in 1..Len(value.l) |-> sliceElem(f.elem, NilV)]
            \o [i \in 1..Len(value.l) |-> sliceElem(f.elem, value.l[i])]

\* setSliceField: the field's new value (it returns no error)
setSliceField(f, cur, value) ==
    IF value.t # "slice" THEN cur
    ELSE [i \in 1..Len(value.l) |-> sliceElem(f.elem, value.l[i])]

RECURSIVE unmarshalWithPath(_, _, _)

\* setFieldValue as it would be if the type assertions went unchecked: a value
\* of the wrong type stores the zero value the failed assertion yields.
setFieldValue_unchecked(f, cur, value, keyPath) ==
    IF value.t = "nil" THEN [val |-> cur, err |-> NoError]
    ELSE CASE f.kind = "struct" ->
                IF value.t = "map"
                THEN LET r == unmarshalWithPath(value.m, PointerTo(f.elem, cur), keyPath)
                     IN  [val |-> r.v.val, err |-> r.err]
                ELSE [val |-> cur, err |-> NoError]
           [] f.kind = "string" ->
                [val |-> IF value.t = "string" THEN value.s ELSE <<>>, err |-> NoError]
           [] f.kind = "int" ->
                [val |-> CASE value.t \in {"int", "int64"} -> SetInt(f.bits, value.n)
                           [] value.t = "float64" -> SetInt(f.bits, FloatToInt(value.tenths))
                           [] OTHER -> 0,
                 err |-> NoError]
           [] f.kind = "uint" ->
                [val |-> CASE value.t \in {"int", "int64"} ->
                                IF value.n >= 0 THEN SetUint(f.bits, value.n) ELSE cur
                           [] value.t \in {"uint", "uint64"} -> SetUint(f.bits, value.n)
                           [] value.t = "float64" ->
                                IF value.tenths >= 0
                                THEN SetUint(f.bits, FloatToInt(value.tenths)) ELSE cur
                           [] OTHER -> 0,
                 err |-> NoError]
           [] f.kind = "bool" ->
                [val |-> IF value.t = "bool" THEN value.b ELSE FALSE, err |-> NoError]
           [] f.kind = "slice" ->
                [val |-> setSliceField(f, cur, value), err |-> NoError]
           [] OTHER -> [val |-> cur, err |-> NoError]

\* setFieldValue as it would be if a negative number cleared an unsigned
\* field instead of being passed over
setFieldValue_clearsOnNegative(f, cur, value, keyPath) ==
    IF value.t = "nil" THEN [val |-> cur, err |-> NoError]
    ELSE CASE f.kind = "struct" ->
                IF value.t = "map"
                THEN LET r == unmarshalWithPath(value.m, PointerTo(f.elem, cur), keyPath)
                     IN  [val |-> r.v.val, err |-> r.err]
                ELSE [val |-> cur, err |-> NoError]
           [] f.kind = "string" ->
                [val |-> IF value.t = "string" THEN value.s ELSE cur, err |-> NoError]
           [] f.kind = "int" ->
                [val |-> CASE value.t \in {"int", "int64"} -> SetInt(f.bits, value.n)
                           [] value.t = "float64" -> SetInt(f.bits, FloatToInt(value.tenths))
                           [] OTHER -> cur,
                 err |-> NoError]
           [] f.kind = "uint" ->
                [val |-> CASE value.t \in {"int", "int64"} ->
                                IF value.n >= 0 THEN SetUint(f.bits, value.n) ELSE 0
                           [] value.t \in {"uint", "uint64"} -> SetUint(f.bits, value.n)
                           [] value.t = "float64" ->
                                IF value.tenths >= 0
                                THEN SetUint(f.bits, FloatToInt(value.tenths)) ELSE 0
                           [] OTHER -> cur,
                 err |-> NoError]
           [] f.kind = "bool" ->
                [val |-> IF value.t = "bool" THEN value.b ELSE cur, err |-> NoError]
           [] f.kind = "slice" ->
                [val |-> setSliceField(f, cur, value), err |-> NoError]
           [] OTHER -> [val |-> cur, err |-> NoError]

\* (*Adder).setFieldValue: the field's new value and the error returned
setFieldValue(f, cur, value, keyPath) ==
    IF value.t = "nil" THEN [val |-> cur, err |-> NoError]
    ELSE CASE f.kind = "struct" ->
                IF value.t = "map"
                THEN LET r == unmarshalWithPath(value.m, PointerTo(f.elem, cur), keyPath)
                     IN  [val |-> r.v.val, err |-> r.err]
                ELSE [val |-> cur, err |-> NoError]
           [] f.kind = "string" ->
                [val |-> IF value.t = "string" THEN value.s ELSE cur, err |-> NoError]
           [] f.kind = "int" ->
                [val |-> CASE value.t \in {"int", "int64"} -> SetInt(f.bits, value.n)
                           [] value.t = "float64" -> SetInt(f.bits, FloatToInt(value.tenths))
                           [] OTHER -> cur,
                 err |-> NoError]
           [] f.kind = "uint" ->
                [val |-> CASE value.t \in {"int", "int64"} ->
                                IF value.n >= 0 THEN SetUint(f.bits, value.n) ELSE cur
                           [] value.t \in {"uint", "uint64"} -> SetUint(f.bits, value.n)
                           [] value.t = "float64" ->
                                IF value.tenths >= 0
                                THEN SetUint(f.bits, FloatToInt(value.tenths)) ELSE cur
                           [] OTHER -> cur,
                 err |-> NoError]
           [] f.kind = "bool" ->
                [val |-> IF value.t = "bool" THEN value.b ELSE cur, err |-> NoError]
           [] f.kind = "slice" ->
                [val |-> setSliceField(f, cur, value), err |-> NoError]
           [] OTHER -> [val |-> cur, err |-> NoError]

\* bindField is part of the recursion of unmarshalWithPath
RECURSIVE bindField(_, _, _, _)

\* bindField as it would be if an environment value went only to the fields
\* setFieldFromString can set, a structure or a sequence being bound from the
\* document as if there were none
bindField_containerFromDocument(f, data, rv, prefix) ==
    IF ~CanSet(f) THEN [val |-> rv, err |-> NoError]
    ELSE LET fieldName == IF f.tag # <<>> THEN f.tag ELSE ToLower(f.name)
             fullKey == IF prefix # <<>> THEN prefix \o <<".">> \o fieldName
                        ELSE fieldName
             envVal == getEnvValue(fullKey)
         IN  IF envVal # <<>> /\ f.kind \notin {"struct", "slice"}
             THEN LET r == setFieldFromString(f, rv[f.id], envVal)
                  IN  [val |-> [rv EXCEPT ![f.id] = r.val], err |-> r.err]
             ELSE IF fieldName \notin DOMAIN data
                  THEN [val |-> rv, err |-> NoError]
                  ELSE LET r == setFieldValue(f, rv[f.id], data[fieldName], fullKey)
                       IN  [val |-> [rv EXCEPT ![f.id] = r.val], err |-> r.err]

\* bindField as it would be if a bound variable that is set counted as found
\* whatever its value (os.LookupEnv in place of a test for "").
bindField_emptyIsFound(f, data, rv, prefix) ==
    IF ~CanSet(f) THEN [val |-> rv, err |-> NoError]
    ELSE LET fieldName == IF f.tag # <<>> THEN f.tag ELSE ToLower(f.name)
             fullKey == IF prefix # <<>> THEN prefix \o <<".">> \o fieldName
                        ELSE fieldName
             envVal == getEnvValue(fullKey)
             found == \/ envVal # <<>>
                      \/ /\ ToLower(fullKey) \in DOMAIN envBindings
                         /\ envBindings[ToLower(fullKey)] \in DOMAIN env
         IN  IF found
             THEN LET r == setFieldFromString(f, rv[f.id], envVal)
                  IN  [val |-> [rv EXCEPT ![f.id] = r.val], err |-> r.err]
             ELSE IF fieldName \notin DOMAIN data
                  THEN [val |-> rv, err |-> NoError]
                  ELSE LET r == setFieldValue(f, rv[f.id], data[fieldName], fullKey)
                       IN  [val |-> [rv EXCEPT ![f.id] = r.val], err |-> r.err]

\* The body of the loop of unmarshalWithPath for field i of the structure:
\* the structure after the field and the error that ends the walk, if any.
bindField(f, data, rv, prefix) ==
    IF ~CanSet(f) THEN [val |-> rv, err |-> NoError]
    ELSE LET fieldName == IF f.tag # <<>> THEN f.tag ELSE ToLower(f.name)
             fullKey == IF prefix # <<>> THEN prefix \o <<".">> \o fieldName
                        ELSE fieldName
             envVal == getEnvValue(fullKey)
         IN  IF envVal # <<>>
             THEN LET r == setFieldFromString(f, rv[f.id], envVal)
                  IN  [val |-> [rv EXCEPT ![f.id] = r.val], err |-> r.err]
             ELSE IF fieldName \notin DOMAIN data
                  THEN [val |-> rv, err |-> NoError]
                  ELSE LET r == setFieldValue(f, rv[f.id], data[fieldName], fullKey)
                       IN  [val |-> [rv EXCEPT ![f.id] = r.val], err |-> r.err]

RECURSIVE fieldLoop(_, _, _, _, _)

\* fieldLoop as it would be if a failure undid the fields already bound
fieldLoop_rollback(type, i, data, rv, prefix) ==
    IF i > Len(Types[type]) THEN [val |-> rv, err |-> NoError]
    ELSE LET r == bindField(Types[type][i], data, rv, prefix)
             rest == fieldLoop(type, i + 1, data, r.val, prefix)
         IN  IF r.err # NoError THEN [val |-> rv, err |-> r.err]
             ELSE IF rest.err # NoError THEN [val |-> rv, err |-> rest.err]
             ELSE rest

\* fieldLoop as it would be if a field that cannot be set were an error
fieldLoop_unsettableFails(type, i, data, rv, prefix) ==
    IF i > Len(Types[type]) THEN [val |-> rv, err |-> NoError]
    ELSE IF ~CanSet(Types[type][i]) THEN [val |-> rv, err |-> "cannot set field"]
    ELSE LET r == bindField(Types[type][i], data, rv, prefix)
         IN  IF r.err # NoError THEN r
             ELSE fieldLoop(type, i + 1, data, r.val, prefix)

\* The loop of unmarshalWithPath from field i on, in declaration order; the
\* first error ends it.
fieldLoop(type, i, data, rv, prefix) ==
    IF i > Len(Types[type]) THEN [val |-> rv, err |-> NoError]
    ELSE LET r == bindField(Types[type][i], data, rv, prefix)
         IN  IF r.err # NoError THEN r
             ELSE fieldLoop(type, i + 1, data, r.val, prefix)

\* unmarshalWithPath as it would be if a target that is no pointer to a
\* structure were passed over in silence
unmarshalWithPath_silent(data, v, prefix) ==
    IF v.kind # "ptr" \/ v.isNil THEN [v |-> v, err |-> NoError]
    ELSE IF v.elem # "struct" THEN [v |-> v, err |-> NoError]
    ELSE LET r == fieldLoop(v.type, 1, data, v.val, prefix)
         IN  [v |-> [v EXCEPT !.val = r.val], err |-> r.err]

\* (*Adder).unmarshalWithPath: v after the call and the error returned
unmarshalWithPath(data, v, prefix) ==
    IF v.kind # "ptr" \/ v.isNil THEN [v |-> v, err |-> ErrNotPointer]
    ELSE IF v.elem # "struct" THEN [v |-> v, err |-> ErrNotStruct]
    ELSE LET r == fieldLoop(v.type, 1, data, v.val, prefix)
         IN  [v |-> [v EXCEPT !.val = r.val], err |-> r.err]

-----------------------------------------------------------------------------
(* The operations.  call is the outcome of the most recent call that       *)
(* returns a result (BindEnv, ReadInConfig, Unmarshal); a setter leaves     *)
(* Idle.                                                                   *)

Idle == [op |-> "none"]

\* The goroutines that call Unmarshal at the same time, each with a target of
\* its own; running[p] is where the call of p stands.
Procs == {1, 2}
NotRunning == [pc |-> "idle"]

\* New
Init ==
    /\ configName = <<>>
    /\ configType = <<>>
    /\ configPaths = <<>>
    /\ envReplacer = NilReplacer
    /\ autoEnv = FALSE
    /\ envBindings = EmptyMap
    /\ configValues = EmptyMap
    /\ env = EmptyMap
    /\ call = Idle
    /\ running = [p \in Procs |-> NotRunning]

\* (*Adder).SetConfigName
SetConfigName(name) ==
    /\ configName' = name
    /\ call' = Idle
    /\ UNCHANGED <<configType, configPaths, envReplacer, autoEnv, envBindings,
                   configValues, env, running>>

\* (*Adder).SetConfigType
SetConfigType(typ) ==
    /\ configType' = typ
    /\ call' = Idle
    /\ UNCHANGED <<configName, configPaths, envReplacer, autoEnv, envBindings,
                   configValues, env, running>>

\* (*Adder).AddConfigPath
AddConfigPath(path) ==
    /\ Len(configPaths) < MaxPaths
    /\ configPaths' = Append(configPaths, path)
    /\ call' = Idle
    /\ UNCHANGED <<configName, configType, envReplacer, autoEnv, envBindings,
                   configValues, env, running>>

\* (*Adder).SetEnvKeyReplacer
SetEnvKeyReplacer(r) ==
    /\ envReplacer' = r
    /\ call' = Idle
    /\ UNCHANGED <<configName, configType, configPaths, autoEnv, envBindings,
                   configValues, env, running>>

\* (*Adder).AutomaticEnv
AutomaticEnv ==
    /\ autoEnv' = TRUE
    /\ call' = Idle
    /\ UNCHANGED <<configName, configType, configPaths, envReplacer, envBindings,
                   configValues, env, running>>

\* BindEnv as it would be if it stored the binding under the key as given
BindEnv_keyAsGiven(key, envVar) ==
    /\ Cardinality(DOMAIN envBindings \cup {key}) <= MaxBindings
    /\ envBindings' = [k \in DOMAIN envBindings \cup {key} |->
                          IF k = key THEN envVar ELSE envBindings[k]]
    /\ call' = [op |-> "BindEnv", key |-> key, envVar |-> envVar, err |-> NoError]
    /\ UNCHANGED <<configName, configType, configPaths, envReplacer, autoEnv,
                   configValues, env, running>>

\* (*Adder).BindEnv; call records the arguments and the error returned
BindEnv(key, envVar) ==
    LET lowerKey == ToLower(key)
    IN  /\ Cardinality(DOMAIN envBindings \cup {lowerKey}) <= MaxBindings
        /\ envBindings' = [k \in DOMAIN envBindings \cup {lowerKey} |->
                              IF k = lowerKey THEN envVar ELSE envBindings[k]]
        /\ call' = [op |-> "BindEnv", key |-> key, envVar |-> envVar, err |-> NoError]
        /\ UNCHANGED <<configName, configType, configPaths, envReplacer, autoEnv,
                       configValues, env, running>>

\* The file ReadInConfig picks: the first search path that holds
\* <configName>.<configType>, or "" when there is none.
RECURSIVE findConfigFile(_)
findConfigFile(i) ==
    IF i > Len(configPaths) THEN <<>>
    ELSE LET candidate == Join(configPaths[i], configName \o <<".">> \o configType)
         IN  IF FileExists(candidate) THEN candidate ELSE findConfigFile(i + 1)

\* yaml.Unmarshal(data, &a.configValues): yaml.v3 decodes a mapping into the
\* map it is given, setting the keys of the document and keeping the others.
yamlUnmarshal(doc, into) ==
    [k \in DOMAIN into \cup DOMAIN doc |-> IF k \in DOMAIN doc THEN doc[k] ELSE into[k]]

\* ReadInConfig as it would be if it emptied the document before looking for
\* the file, so that a failed load leaves none.
ReadInConfig_clears ==
    LET configFile == findConfigFile(1)
        err == IF configName = <<>> THEN "config name not set"
               ELSE IF configFile = <<>> THEN "config file not found"
               ELSE IF configType \in {yaml, <<"y","m","l">>} THEN NoError
               ELSE "unsupported config type"
    IN  /\ configValues' = IF err = NoError
                           THEN yamlUnmarshal(Files[configFile], EmptyMap)
                           ELSE EmptyMap
        /\ call' = [op |-> "ReadInConfig", err |-> err, file |-> configFile]
        /\ UNCHANGED <<configName, configType, configPaths, envReplacer, autoEnv,
                       envBindings, env, running>>

\* (*Adder).ReadInConfig; call records the error returned and the file picked
ReadInConfig ==
    LET configFile == findConfigFile(1)
        err == IF configName = <<>> THEN "config name not set"
               ELSE IF configFile = <<>> THEN "config file not found"
               ELSE IF configType \in {yaml, <<"y","m","l">>} THEN NoError
               ELSE "unsupported config type"
    IN  /\ configValues' = IF err = NoError
                           THEN yamlUnmarshal(Files[configFile], configValues)
                           ELSE configValues
        /\ call' = [op |-> "ReadInConfig", err |-> err, file |-> configFile]
        /\ UNCHANGED <<configName, configType, configPaths, envReplacer, autoEnv,
                       envBindings, env, running>>

\* (*Adder).Unmarshal
Unmarshal(v) ==
    LET r == unmarshalWithPath(configValues, v, <<>>)
    IN  /\ call' = [op |-> "Unmarshal", v |-> v, after |-> r.v, err |-> r.err]
        /\ UNCHANGED <<configName, configType, configPaths, envReplacer, autoEnv,
                       envBindings, configValues, env, running>>

\* The call of Unmarshal(v) by goroutine p, one step at a time.  It starts with
\* the checks of unmarshalWithPath on v.
UnmarshalBegin(p, v) ==
    /\ running[p] = NotRunning
    /\ running' = [running EXCEPT ![p] =
            IF v.kind # "ptr" \/ v.isNil
            THEN [pc |-> "done", v |-> v, rv |-> v, i |-> 0, err |-> ErrNotPointer]
            ELSE IF v.elem # "struct"
            THEN [pc |-> "done", v |-> v, rv |-> v, i |-> 0, err |-> ErrNotStruct]
            ELSE [pc |-> "walk", v |-> v, rv |-> v.val, i |-> 1, err |-> NoError]]
    /\ UNCHANGED <<adder, env, call>>

\* UnmarshalStep as it would be if the index of the loop were kept in the
\* Adder: a step of p moves the index of every call under way.
UnmarshalStep_sharedIndex(p) ==
    LET st == running[p]
        fields == Types[st.v.type]
        r == bindField(fields[st.i], configValues, st.rv, <<>>)
        next == IF st.i > Len(fields) THEN [st EXCEPT !.pc = "done"]
                ELSE IF r.err # NoError
                THEN [st EXCEPT !.pc = "done", !.rv = r.val, !.err = r.err]
                ELSE [st EXCEPT !.rv = r.val, !.i = st.i + 1]
    IN  /\ st.pc = "walk"
        /\ running' = [q \in Procs |->
                IF q = p THEN next
                ELSE IF running[q].pc = "walk" THEN [running[q] EXCEPT !.i = next.i]
                ELSE running[q]]
        /\ UNCHANGED <<adder, env, call>>

\* One iteration of the loop of unmarshalWithPath in the call of p: the next
\* field of the target of p is bound, or the loop ends.
UnmarshalStep(p) ==
    LET st == running[p]
        fields == Types[st.v.type]
        r == bindField(fields[st.i], configValues, st.rv, <<>>)
    IN  /\ st.pc = "walk"
        /\ running' = [running EXCEPT ![p] =
                IF st.i > Len(fields) THEN [st EXCEPT !.pc = "done"]
                ELSE IF r.err # NoError
                THEN [st EXCEPT !.pc = "done", !.rv = r.val, !.err = r.err]
                ELSE [st EXCEPT !.rv = r.val, !.i = st.i + 1]]
        /\ UNCHANGED <<adder, env, call>>

\* The call of p returns; its caller has the target and the error.
UnmarshalReturn(p) ==
    /\ running[p].pc = "done"
    /\ running' = [running EXCEPT ![p] = NotRunning]
    /\ UNCHANGED <<adder, env, call>>

\* os.Setenv, by the process or its parent
Setenv(name, value) ==
    /\ Cardinality(DOMAIN env \cup {name}) <= MaxEnv
    /\ env' = [n \in DOMAIN env \cup {name} |-> IF n = name THEN value ELSE env[n]]
    /\ call' = Idle
    /\ UNCHANGED <<adder, running>>

\* os.Unsetenv
Unsetenv(name) ==
    /\ name \in DOMAIN env
    /\ env' = [n \in DOMAIN env \ {name} |-> env[n]]
    /\ call' = Idle
    /\ UNCHANGED <<adder, running>>

Next ==
    \/ SetConfigName(application)
    \/ \E typ \in {yaml} : SetConfigType(typ)
    \/ \E path \in Dirs : AddConfigPath(path)
    \/ \E r \in {NilReplacer, NewReplacer(".", "_")} : SetEnvKeyReplacer(r)
    \/ AutomaticEnv
    \/ \E key \in BindKeys, envVar \in BindVars : BindEnv(key, envVar)
    \/ ReadInConfig
    \/ \E i \in 1..Len(ValidTargets) : Unmarshal(ValidTargets[i])
    \/ \E name \in EnvNames : \E value \in EnvValues(name) : Setenv(name, value)
    \/ \E name \in EnvNames : Unsetenv(name)

Spec == Init /\ [][Next]_vars

\* The same program called with every kind of argument, valid or not, in an
\* environment nobody changes.
NextTargets ==
    \/ SetConfigName(application)
    \/ \E typ \in {yaml} : SetConfigType(typ)
    \/ \E path \in Dirs : AddConfigPath(path)
    \/ \E r \in {NilReplacer, NewReplacer(".", "_")} : SetEnvKeyReplacer(r)
    \/ AutomaticEnv
    \/ \E key \in BindKeys, envVar \in BindVars : BindEnv(key, envVar)
    \/ ReadInConfig
    \/ \E i \in 1..Len(ValidTargets) : Unmarshal(ValidTargets[i])
    \/ \E i \in 1..Len(InvalidTargets) : Unmarshal(InvalidTargets[i])

SpecTargets == Init /\ [][NextTargets]_vars

\* The loading of files: every config type and directory, loads and reloads,
\* each followed or not by a decode.
NextFiles ==
    \/ SetConfigName(application)
    \/ \E typ \in ConfigTypes : SetConfigType(typ)
    \/ \E path \in AllDirs : AddConfigPath(path)
    \/ ReadInConfig
    \/ \E i \in 1..Len(ValidTargets) : Unmarshal(ValidTargets[i])

SpecFiles == Init /\ [][NextFiles]_vars

\* no call of Unmarshal is under way
Quiet == \A p \in Procs : running[p] = NotRunning

\* Two goroutines that decode the same Adder at the same time, each into its
\* own target.  The Adder is set up and the environment changed only while
\* no decode is under way.
NextConcurrent ==
    \/ Quiet /\ SetConfigName(application)
    \/ Quiet /\ SetConfigType(yaml)
    \/ Quiet /\ \E path \in Dirs : AddConfigPath(path)
    \/ Quiet /\ SetEnvKeyReplacer(NewReplacer(".", "_"))
    \/ Quiet /\ AutomaticEnv
    \/ Quiet /\ ReadInConfig
    \/ Quiet /\ \E value \in EnvValues(HTTP_TLS_DEPTH) : Setenv(HTTP_TLS_DEPTH, value)
    \/ \E p \in Procs : UnmarshalBegin(p, ValidTargets[p])
    \/ \E p \in Procs : UnmarshalStep(p)
    \/ \E p \in Procs : UnmarshalReturn(p)

SpecConcurrent == Init /\ [][NextConcurrent]_vars

\* The program in an environment that holds a variable for the boolean field
\* Debug, found by AutomaticEnv or bound with BindEnv.
NextKinds ==
    \/ SetConfigName(application)
    \/ SetConfigType(yaml)
    \/ \E path \in Dirs : AddConfigPath(path)
    \/ AutomaticEnv
    \/ BindEnv(k_debug, DEBUG)
    \/ ReadInConfig
    \/ \E i \in 1..Len(ValidTargets) : Unmarshal(ValidTargets[i])
    \/ \E value \in DebugValues : Setenv(DEBUG, value)
    \/ Unsetenv(DEBUG)

SpecKinds == Init /\ [][NextKinds]_vars

\* The program in an environment that holds variables named after a
\* structure field and a sequence field, found by AutomaticEnv or bound with
\* BindEnv.
NextContainers ==
    \/ SetConfigName(application)
    \/ SetConfigType(yaml)
    \/ \E path \in Dirs : AddConfigPath(path)
    \/ SetEnvKeyReplacer(NewReplacer(".", "_"))
    \/ AutomaticEnv
    \/ BindEnv(k_db, HTTP)
    \/ ReadInConfig
    \/ \E i \in 1..Len(ValidTargets) : Unmarshal(ValidTargets[i])
    \/ \E name \in ContainerNames : Setenv(name, ContainerValue(name))
    \/ \E name \in ContainerNames : Unsetenv(name)

SpecContainers == Init /\ [][NextContainers]_vars

\* The program with numbers, in the environment and in the document, that are
\* too large for the 8-bit and 16-bit fields they are for.
NextWidths ==
    \/ SetConfigName(application)
    \/ SetConfigType(yaml)
    \/ \E path \in WidthDirs : AddConfigPath(path)
    \/ SetEnvKeyReplacer(NewReplacer(".", "_"))
    \/ AutomaticEnv
    \/ ReadInConfig
    \/ \E i \in 1..Len(ValidTargets) : Unmarshal(ValidTargets[i])
    \/ \E name \in WidthNames : \E value \in WidthValues(name) : Setenv(name, value)
    \/ \E name \in WidthNames : Unsetenv(name)

SpecWidths == Init /\ [][NextWidths]_vars

-----------------------------------------------------------------------------
(* Vocabulary of the properties.  The keys, variable names and numbers are  *)
(* written out, not computed by the decoder.                               *)

IsValidTarget(v) == v.kind = "ptr" /\ ~v.isNil /\ v.elem = "struct"

\* the most recent call is an Unmarshal of a pointer to a Config
Decoded == call.op = "Unmarshal" /\ IsValidTarget(call.v)
Succeeded == Decoded /\ call.err = NoError
Failed == Decoded /\ call.err # NoError

\* the target before and after the call
before == call.v.val
after == call.after.val

key_db_url == <<"d","b",".","u","r","l">>
key_http_port == <<"h","t","t","p",".","p","o","r","t">>
key_http_tls_depth == <<"h","t","t","p",".","t","l","s",".","d","e","p","t","h">>

\* the number a base-10 string of the model denotes
NumberOf(s) ==
    CASE s = <<"9","1">> -> 91
      [] s = <<"9","2">> -> 92
      [] s = <<"-","5">> -> 0 - 5

IsUnsignedText(s) == s \in {<<"9","1">>, <<"9","2">>}
IsSignedText(s) == s \in {<<"9","1">>, <<"9","2">>, <<"-","5">>}

\* the mapping the document holds under key k of mapping m, if any
HasMap(m, k) == k \in DOMAIN m /\ m[k].t = "map"
Section(m, k) == IF HasMap(m, k) THEN m[k].m ELSE EmptyMap
HasValue(m, k, t) == k \in DOMAIN m /\ m[k].t = t

IsBound(key) == key \in DOMAIN envBindings
\* the value of the variable bound to key
BoundValue(key) == Getenv(envBindings[key])
\* the bound variable is set, to the empty string
BoundSetEmpty(key) ==
    IsBound(key) /\ envBindings[key] \in DOMAIN env /\ env[envBindings[key]] = <<>>

\* the value of the automatically derived variable: the upper-cased dotted
\* path, with the replacer applied when there is one
AutoValue(replaced, dotted) ==
    IF ~autoEnv THEN <<>>
    ELSE IF envReplacer = NewReplacer(".", "_") THEN Getenv(replaced)
    ELSE Getenv(dotted)

AutoDbUrl == AutoValue(DB_URL, <<"D","B",".","U","R","L">>)
AutoHttpPort == AutoValue(HTTP_PORT, <<"H","T","T","P",".","P","O","R","T">>)
AutoHttpTlsDepth ==
    AutoValue(HTTP_TLS_DEPTH, <<"H","T","T","P",".","T","L","S",".","D","E","P","T","H">>)

-----------------------------------------------------------------------------
(* C1 - Explicit-binding precedence.                                       *)

\* C1: after a successful Unmarshal, every field whose dotted path is bound
\* with BindEnv to a variable holding a non-empty value holds that value (the
\* number it denotes, for an integer field), whatever the document and the
\* automatically derived variable hold.
C1_ExplicitBindingWins ==
    Succeeded =>
        /\ (IsBound(key_db_url) /\ BoundValue(key_db_url) # <<>>)
              => after.Db.URL = BoundValue(key_db_url)
        /\ (IsBound(key_http_port) /\ IsUnsignedText(BoundValue(key_http_port)))
              => after.Http.Port = NumberOf(BoundValue(key_http_port))

-----------------------------------------------------------------------------
(* C2 - Automatic-env precedence and fallback.                             *)

\* C2: after a successful Unmarshal with no explicit binding for a field's
\* path, the field holds the value of the automatically derived variable when
\* AutomaticEnv is on and that variable is set and not empty, and the value
\* the document holds for it otherwise; for every field of the call.
C2_AutomaticEnvWinsElseDocument ==
    Succeeded =>
        /\ ~IsBound(key_db_url) =>
              IF AutoDbUrl # <<>> THEN after.Db.URL = AutoDbUrl
              ELSE HasValue(Section(configValues, k_db), k_url, "string")
                      => after.Db.URL = Section(configValues, k_db)[k_url].s
        /\ ~IsBound(key_http_port) =>
              IF AutoHttpPort # <<>>
              THEN IsUnsignedText(AutoHttpPort)
                      => after.Http.Port = NumberOf(AutoHttpPort)
              ELSE (/\ HasValue(Section(configValues, k_http), k_port, "int")
                    /\ Section(configValues, k_http)[k_port].n >= 0)
                      => after.Http.Port = Section(configValues, k_http)[k_port].n
        /\ IF AutoHttpTlsDepth # <<>>
           THEN IsSignedText(AutoHttpTlsDepth)
                   => after.Http.Tls.Depth = NumberOf(AutoHttpTlsDepth)
           ELSE HasValue(Section(Section(configValues, k_http), k_tls), k_depth, "int")
                   => after.Http.Tls.Depth =
                         Section(Section(configValues, k_http), k_tls)[k_depth].n

-----------------------------------------------------------------------------
(* C3 - Deep environment binding.                                          *)

\* C3: after a successful Unmarshal, a field of a nested structure whose
\* section is absent from the document and whose dotted path has an
\* environment value holds that value: the walk enters a structure the
\* document does not mention.
C3_MissingSectionStillWalked ==
    Succeeded =>
        /\ (k_db \notin DOMAIN configValues /\ getEnvValue(key_db_url) # <<>>)
              => after.Db.URL = getEnvValue(key_db_url)
        /\ (k_http \notin DOMAIN configValues
              /\ IsUnsignedText(getEnvValue(key_http_port)))
              => after.Http.Port = NumberOf(getEnvValue(key_http_port))

-----------------------------------------------------------------------------
(* C4 - Case-insensitive document keys.                                    *)

\* C4: after ReadInConfig and a successful Unmarshal, a document key that is
\* baseurl once folded to lower case (baseurl, baseUrl, baseURL) gives its
\* value to the field BaseURL, when no environment value overrides it.
C4_DocumentKeysFoldCase ==
    Succeeded =>
        \A k \in DOMAIN configValues :
            (ToLower(k) = k_baseurl /\ configValues[k].t = "string"
                /\ getEnvValue(k_baseurl) = <<>>)
              => after.BaseURL = configValues[k].s

-----------------------------------------------------------------------------
(* C5 - An explicit binding whose variable is set to the empty string.     *)

\* the document holds a string for db.url, a number for http.port
DocHasDbUrl == HasValue(Section(configValues, k_db), k_url, "string")
DocDbUrl == Section(configValues, k_db)[k_url].s
DocHasHttpPort ==
    /\ HasValue(Section(configValues, k_http), k_port, "int")
    /\ Section(configValues, k_http)[k_port].n >= 0
DocHttpPort == Section(configValues, k_http)[k_port].n

\* C5 as the specification states it: when a field's path is bound and the
\* bound variable is set to the empty string, the document value is not used:
\* the field is left as it was, or emptied.
C5_EmptyBoundValueShortCircuits ==
    Succeeded =>
        /\ (BoundSetEmpty(key_db_url) /\ DocHasDbUrl)
              => after.Db.URL \in {before.Db.URL, <<>>}
        /\ (BoundSetEmpty(key_http_port) /\ DocHasHttpPort)
              => after.Http.Port = before.Http.Port

\* C5, amended: when a field's path is bound and the bound variable is set to
\* the empty string, the binding counts as not found, as if the variable were
\* not set, and the field receives the document value.
C5_EmptyBoundValueFallsBack ==
    Succeeded =>
        /\ (BoundSetEmpty(key_db_url) /\ DocHasDbUrl) => after.Db.URL = DocDbUrl
        /\ (BoundSetEmpty(key_http_port) /\ DocHasHttpPort)
              => after.Http.Port = DocHttpPort

C5_Witness ==
    /\ Succeeded
    /\ BoundSetEmpty(key_db_url)
    /\ DocHasDbUrl
    /\ before.Db.URL # DocDbUrl
    /\ after.Db.URL = DocDbUrl

-----------------------------------------------------------------------------
(* C6 - Coercion error.                                                    *)

\* text the resolver can yield that is no base-10 integer, or a negative one
BadUnsigned(s) == s \in {<<"x">>, <<"-","5">>}
BadSigned(s) == s = <<"x">>

\* the walk reaches the fields of Http, of Http.Tls
WalksHttp == HasMap(configValues, k_http)
WalksTls == WalksHttp /\ HasMap(Section(configValues, k_http), k_tls)

\* the resolver yields bad text for Http.Port, for Http.Tls.Depth
PortFails == WalksHttp /\ BadUnsigned(getEnvValue(key_http_port))
DepthFails == WalksTls /\ BadSigned(getEnvValue(key_http_tls_depth))

\* C6: when the walk of Unmarshal comes to an integer field for which the
\* resolver yields text that is no base-10 integer, or a negative number for an
\* unsigned field, Unmarshal returns the parse error, from a structure one
\* level down (Http.Port) and from one two levels down (Http.Tls.Depth).
C6_BadIntegerTextIsAnError ==
    (Decoded /\ (PortFails \/ DepthFails)) => call.err = ErrSyntax

C6_Witness ==
    /\ Decoded
    /\ DepthFails
    /\ ~PortFails
    /\ call.err = ErrSyntax

-----------------------------------------------------------------------------
(* C7 - Invalid target.                                                    *)

\* C7: Unmarshal of nil, of a value that is no pointer, of a nil pointer or of
\* a pointer to something that is no structure returns an error and leaves
\* its argument as it was.
C7_InvalidTargetIsAnError ==
    (call.op = "Unmarshal" /\ ~IsValidTarget(call.v)) =>
        /\ call.err = IF call.v.kind = "ptr" /\ ~call.v.isNil
                      THEN ErrNotStruct ELSE ErrNotPointer
        /\ call.after = call.v

C7_Witness ==
    /\ call.op = "Unmarshal"
    /\ call.v = StructValue(ZeroConfig)
    /\ configValues = DocFull
    /\ call.err = ErrNotPointer
    /\ call.after = call.v

-----------------------------------------------------------------------------
(* C8 - No rollback on failure.                                            *)

\* what the fields before Http hold once the walk has passed them
BoundBeforeHttp ==
    /\ HasValue(configValues, k_baseurl, "string")
          => after.BaseURL = configValues[k_baseurl].s
    /\ HasValue(configValues, k_debug, "bool") => after.Debug = configValues[k_debug].b

\* what Http.Port holds once the walk has passed it
PortBound ==
    IF IsUnsignedText(getEnvValue(key_http_port))
    THEN after.Http.Port = NumberOf(getEnvValue(key_http_port))
    ELSE DocHasHttpPort => after.Http.Port = DocHttpPort

\* C8: when Unmarshal fails at a field, the fields before it in the walk
\* (depth first, in declaration order) hold their newly bound values and the
\* fields after it hold the values they had before the call.
C8_NoRollback ==
    /\ (Failed /\ PortFails) =>
          /\ BoundBeforeHttp
          /\ after.Http = before.Http
          /\ after.Db = before.Db
          /\ after.AllowedOrigins = before.AllowedOrigins
    /\ (Failed /\ DepthFails /\ ~PortFails) =>
          /\ BoundBeforeHttp
          /\ PortBound
          /\ after.Http.Tls = before.Http.Tls
          /\ after.Db = before.Db
          /\ after.AllowedOrigins = before.AllowedOrigins

C8_Witness ==
    /\ Failed
    /\ DepthFails
    /\ ~PortFails
    /\ after.Debug # before.Debug
    /\ after.Http.Port # before.Http.Port
    /\ DocHasDbUrl
    /\ after.Db.URL = before.Db.URL
    /\ after.Db.URL # DocDbUrl

-----------------------------------------------------------------------------
(* C9 - Sequence decoding preserves order and length.                      *)

\* the document holds a sequence of strings for allowed_origins
DocHasOrigins ==
    /\ HasValue(configValues, k_allowed_origins, "slice")
    /\ \A i \in 1..Len(configValues[k_allowed_origins].l) :
          configValues[k_allowed_origins].l[i].t = "string"
DocOrigins == configValues[k_allowed_origins].l

\* C9: a document sequence of n strings decoded into the []string field
\* AllowedOrigins yields n elements, the i-th equal to the i-th of the document.
C9_StringSequenceKeepsOrder ==
    (Succeeded /\ DocHasOrigins) =>
        /\ Len(after.AllowedOrigins) = Len(DocOrigins)
        /\ \A i \in 1..Len(DocOrigins) : after.AllowedOrigins[i] = DocOrigins[i].s

C9_Witness ==
    /\ Succeeded
    /\ DocHasOrigins
    /\ Len(DocOrigins) >= 2
    /\ DocOrigins[1] # DocOrigins[2]
    /\ after.AllowedOrigins # before.AllowedOrigins
    /\ after.AllowedOrigins[1] = DocOrigins[1].s

-----------------------------------------------------------------------------
(* C10 - Errors are limited to the taxonomy.                               *)

\* C10: Unmarshal of a pointer to a structure returns an error only when the
\* resolver yields, for an integer field, text that cannot be parsed; missing
\* and unknown document keys, null values, values of the wrong type, negative
\* numbers for unsigned fields and unexported fields produce none.
C10_OnlyCoercionErrors ==
    Failed =>
        /\ call.err = ErrSyntax
        /\ \/ BadUnsigned(getEnvValue(key_http_port))
           \/ BadSigned(getEnvValue(key_http_tls_depth))

\* a successful decode of the document that holds a negative port, a null
\* section, values of the wrong type and no db section
C10_Witness ==
    /\ Succeeded
    /\ HasValue(Section(configValues, k_http), k_port, "int")
    /\ Section(configValues, k_http)[k_port].n < 0
    /\ HasValue(Section(configValues, k_http), k_tls, "nil")
    /\ HasValue(configValues, k_debug, "string")
    /\ k_db \notin DOMAIN configValues
    /\ after.Http.Port = before.Http.Port
    /\ after.BaseURL # before.BaseURL

-----------------------------------------------------------------------------
(* C11 - Prior value preserved on skip.                                    *)

\* the resolver finds no environment value for the dotted path
NoEnv(key) == getEnvValue(key) = <<>>

\* mapping m holds nothing for key k that a field taking the types ts can use:
\* no key, a null, or a value of another type
Unusable(m, k, ts) == k \notin DOMAIN m \/ m[k].t \notin ts

\* mapping m holds for key k a sequence of which no element has a type of ts
NoElementUsable(m, k, ts) ==
    /\ HasValue(m, k, "slice")
    /\ \A i \in 1..Len(m[k].l) : m[k].l[i].t \notin ts

DocHttp == Section(configValues, k_http)
DocTls == Section(DocHttp, k_tls)
DocDb == Section(configValues, k_db)

key_http_workers == <<"h","t","t","p",".","w","o","r","k","e","r","s">>
key_http_retries == <<"h","t","t","p",".","r","e","t","r","i","e","s">>
key_db_schema == <<"d","b",".","s","c","h","e","m","a">>

NumberTypes == {"int", "float64"}

\* the scalar fields and the sequence fields whose source is no sequence keep
\* the value they had before the call
SkippedFieldsKeepPrior ==
    /\ (NoEnv(k_baseurl) /\ Unusable(configValues, k_baseurl, {"string"}))
          => after.BaseURL = before.BaseURL
    /\ (NoEnv(k_debug) /\ Unusable(configValues, k_debug, {"bool"}))
          => after.Debug = before.Debug
    /\ (NoEnv(key_http_port) /\ Unusable(DocHttp, k_port, NumberTypes))
          => after.Http.Port = before.Http.Port
    /\ (NoEnv(key_http_workers) /\ Unusable(DocHttp, k_workers, NumberTypes))
          => after.Http.Workers = before.Http.Workers
    /\ (NoEnv(key_http_retries) /\ Unusable(DocHttp, k_retries, NumberTypes))
          => after.Http.Retries = before.Http.Retries
    /\ (NoEnv(key_http_tls_depth) /\ Unusable(DocTls, k_depth, NumberTypes))
          => after.Http.Tls.Depth = before.Http.Tls.Depth
    /\ (NoEnv(key_db_url) /\ Unusable(DocDb, k_url, {"string"}))
          => after.Db.URL = before.Db.URL
    /\ (NoEnv(key_db_schema) /\ Unusable(DocDb, k_schema, {"string"}))
          => after.Db.Schema = before.Db.Schema
    /\ (NoEnv(k_allowed_origins) /\ Unusable(configValues, k_allowed_origins, {"slice"}))
          => after.AllowedOrigins = before.AllowedOrigins
    /\ (NoEnv(k_ports) /\ Unusable(configValues, k_ports, {"slice"}))
          => after.Ports = before.Ports
    /\ (NoEnv(k_codes) /\ Unusable(configValues, k_codes, {"slice"}))
          => after.Codes = before.Codes
    /\ (NoEnv(k_sizes) /\ Unusable(configValues, k_sizes, {"slice"}))
          => after.Sizes = before.Sizes
    /\ (NoEnv(k_flags) /\ Unusable(configValues, k_flags, {"slice"}))
          => after.Flags = before.Flags

\* C11 as the specification states it: after a successful Unmarshal, a field
\* with no environment value whose document entry is absent, null or of a type
\* that cannot be converted holds the value it had before the call, and so does
\* a sequence field whose source is a sequence of unconvertible elements.
C11_SkippedFieldKeepsPrior ==
    Succeeded =>
        /\ SkippedFieldsKeepPrior
        /\ (NoEnv(k_allowed_origins)
               /\ NoElementUsable(configValues, k_allowed_origins, {"string"}))
              => after.AllowedOrigins = before.AllowedOrigins
        /\ (NoEnv(k_codes) /\ NoElementUsable(configValues, k_codes, NumberTypes))
              => after.Codes = before.Codes

\* C11, amended: after a successful Unmarshal, a field with no environment
\* value whose document entry is absent, null or of a type that cannot be
\* converted, a sequence field whose source is no sequence included, holds the
\* value it had before the call; a sequence field whose source is a sequence
\* is replaced by a sequence of the source's length, of zero values when no
\* element can be converted.
C11_SkippedFieldKeepsPriorSequenceReplaced ==
    Succeeded =>
        /\ SkippedFieldsKeepPrior
        /\ (NoEnv(k_codes) /\ NoElementUsable(configValues, k_codes, NumberTypes))
              => after.Codes = [i \in 1..Len(configValues[k_codes].l) |-> 0]

\* the decode of the odd document into the preset target: the wrong-typed
\* debug, the null flags and the scalar sizes leave the defaults, the codes
\* are replaced by zeroes
C11_Witness ==
    /\ Succeeded
    /\ HasValue(configValues, k_debug, "string")
    /\ HasValue(configValues, k_flags, "nil")
    /\ HasValue(configValues, k_sizes, "string")
    /\ k_db \notin DOMAIN configValues
    /\ NoElementUsable(configValues, k_codes, NumberTypes)
    /\ before = PresetConfig
    /\ after.Debug = TRUE
    /\ after.Flags = <<TRUE>>
    /\ after.Sizes = <<1>>
    /\ after.Db = before.Db
    /\ after.Codes = <<0, 0>>
    /\ after.BaseURL # before.BaseURL

-----------------------------------------------------------------------------
(* C12 - Reload replaces the document.                                     *)

\* the most recent call is a ReadInConfig that returned nil
Loaded == call.op = "ReadInConfig" /\ call.err = NoError

\* C12: when ReadInConfig returns nil, the document tree is exactly the
\* content of the file it loaded: no key of an earlier load remains.
C12_ReloadReplacesDocument ==
    Loaded => configValues = Files[call.file]

-----------------------------------------------------------------------------
(* C15 - ReadInConfig failure cases.                                       *)

\* some search path holds <configName>.<configType>
SomePathHasFile ==
    \E i \in 1..Len(configPaths) :
        <<configPaths[i], configName \o <<".">> \o configType>> \in DOMAIN Files

-----------------------------------------------------------------------------
(* C16 - Config type matching.                                             *)

\* C16: with the config type "Yaml" and a search path that holds
\* application.yml and no other file, ReadInConfig returns nil and the document
\* tree holds what that file holds.
C16_YamlTypeFindsYmlFile ==
    (/\ call.op = "ReadInConfig"
     /\ configName = application
     /\ configType = Yaml
     /\ configPaths = <<"alt">>) =>
        /\ call.err = NoError
        /\ HasMap(configValues, k_http)
        /\ configValues[k_http] = DocYml[k_http]

-----------------------------------------------------------------------------
(* C13 - The binding table is monotonic.                                   *)

\* the lower-case form of the keys handed to BindEnv
LowerOf(key) ==
    CASE key = <<"D","b",".","U","R","L">> -> key_db_url
      [] key = <<"h","t","t","p",".","p","o","r","t">> -> key_http_port

-----------------------------------------------------------------------------
(* C14 - Concurrent decodes.                                               *)

\* what Unmarshal(v) yields when nothing else runs
Alone(v) == unmarshalWithPath(configValues, v, <<>>)

\* the call of p has come to its end
Done(p) == running[p].pc = "done"

-----------------------------------------------------------------------------
(* C17 - Sequence elements follow the scalar rules.                        *)

\* The rules for a document value given to a plain field, with the zero value
\* for a value that cannot be converted: a string field takes a string, an
\* integer field an integer or a floating number truncated toward zero, an
\* unsigned field the same when not negative, a boolean field a boolean.
StringOf(item) == IF item.t = "string" THEN item.s ELSE <<>>
SignedOf(item) ==
    IF item.t = "int" THEN item.n
    ELSE IF item.t = "float64"
         THEN (IF item.tenths >= 0 THEN item.tenths \div 10
               ELSE 0 - ((0 - item.tenths) \div 10))
    ELSE 0
UnsignedOf(item) == IF SignedOf(item) >= 0 THEN SignedOf(item) ELSE 0
BooleanOf(item) == IF item.t = "bool" THEN item.b ELSE FALSE

\* the document holds a sequence for key k and the resolver nothing
FromSequence(k) == NoEnv(k) /\ HasValue(configValues, k, "slice")
Source(k) == configValues[k].l

\* the strings and the integers of the []string and []int fields are converted
\* one by one
StringAndIntElements ==
    /\ FromSequence(k_allowed_origins) =>
          after.AllowedOrigins =
             [i \in 1..Len(Source(k_allowed_origins)) |->
                 StringOf(Source(k_allowed_origins)[i])]
    /\ FromSequence(k_ports) =>
          after.Ports = [i \in 1..Len(Source(k_ports)) |-> SignedOf(Source(k_ports)[i])]

\* C17 as the specification states it: after a successful Unmarshal every
\* sequence field, of strings, of integers of any width, of unsigned integers
\* or of booleans, holds the elements of the document sequence, each converted
\* by the rule of a plain field of the element type, or zero when it cannot be.
C17_ElementsFollowScalarRules ==
    Succeeded =>
        /\ StringAndIntElements
        /\ FromSequence(k_codes) =>
              after.Codes = [i \in 1..Len(Source(k_codes)) |-> SignedOf(Source(k_codes)[i])]
        /\ FromSequence(k_sizes) =>
              after.Sizes = [i \in 1..Len(Source(k_sizes)) |-> UnsignedOf(Source(k_sizes)[i])]
        /\ FromSequence(k_flags) =>
              after.Flags = [i \in 1..Len(Source(k_flags)) |-> BooleanOf(Source(k_flags)[i])]

\* C17, amended: the elements of a []string and of an []int field are converted
\* one by one by the rule of a plain field, zero when they cannot be; a
\* sequence field of another element type ([]int32, []uint, []bool) holds as
\* many zero values as the document sequence has elements.
C17_StringAndIntElementsOnly ==
    Succeeded =>
        /\ StringAndIntElements
        /\ FromSequence(k_codes) => after.Codes = [i \in 1..Len(Source(k_codes)) |-> 0]
        /\ FromSequence(k_sizes) => after.Sizes = [i \in 1..Len(Source(k_sizes)) |-> 0]
        /\ FromSequence(k_flags) =>
              after.Flags = [i \in 1..Len(Source(k_flags)) |-> FALSE]

\* the decode of a sequence of an integer, a string, 2.5 and a boolean into
\* the []int field, and of a sequence with a number in it into the []string
\* field
C17_Witness ==
    /\ Succeeded
    /\ FromSequence(k_ports)
    /\ Len(Source(k_ports)) = 4
    /\ Source(k_ports)[3].t = "float64"
    /\ after.Ports = <<80, 0, 2, 0>>
    /\ after.AllowedOrigins = <<httpsB, <<>>, httpsA>>
    /\ after.Codes = <<0, 0>>

-----------------------------------------------------------------------------
(* C18 - A negative document number for an unsigned field.                 *)

key_http_backlog == <<"h","t","t","p",".","b","a","c","k","l","o","g">>

\* the http section holds a number for key k and the resolver nothing for the
\* dotted path key
NumberFor(key, k) ==
    /\ NoEnv(key)
    /\ k \in DOMAIN DocHttp
    /\ DocHttp[k].t \in NumberTypes
\* that number, in tenths
Tenths(k) == IF DocHttp[k].t = "int" THEN 10 * DocHttp[k].n ELSE DocHttp[k].tenths
\* its integer part, for a number that is not negative
Whole(k) == Tenths(k) \div 10

\* C18 as the specification states it: after a successful Unmarshal an
\* unsigned field whose document number v is negative is zero, and one whose
\* document number v is not negative holds v.
C18_NegativeLeavesZero ==
    Succeeded =>
        /\ NumberFor(key_http_port, k_port) =>
              IF Tenths(k_port) < 0 THEN after.Http.Port = 0
              ELSE 10 * after.Http.Port = Tenths(k_port)
        /\ NumberFor(key_http_workers, k_workers) =>
              IF Tenths(k_workers) < 0 THEN after.Http.Workers = 0
              ELSE 10 * after.Http.Workers = Tenths(k_workers)
        /\ NumberFor(key_http_backlog, k_backlog) =>
              IF Tenths(k_backlog) < 0 THEN after.Http.Backlog = 0
              ELSE 10 * after.Http.Backlog = Tenths(k_backlog)

\* C18, amended: after a successful Unmarshal an unsigned field whose
\* document number is negative holds what it held before the call, and one
\* whose document number is not negative holds its integer part, modulo 2^w
\* in a field of w bits.
C18_NegativeLeavesPrior ==
    Succeeded =>
        /\ NumberFor(key_http_port, k_port) =>
              IF Tenths(k_port) < 0 THEN after.Http.Port = before.Http.Port
              ELSE after.Http.Port = Whole(k_port)
        /\ NumberFor(key_http_workers, k_workers) =>
              IF Tenths(k_workers) < 0 THEN after.Http.Workers = before.Http.Workers
              ELSE after.Http.Workers = Whole(k_workers) % 256
        /\ NumberFor(key_http_backlog, k_backlog) =>
              IF Tenths(k_backlog) < 0 THEN after.Http.Backlog = before.Http.Backlog
              ELSE after.Http.Backlog = Whole(k_backlog) % 65536

\* the decode of port -1, backlog -2.5 and workers 2.5 into the preset target
C18_Witness ==
    /\ Succeeded
    /\ NumberFor(key_http_port, k_port)
    /\ DocHttp[k_port] = IntV(0 - 1)
    /\ DocHttp[k_backlog] = FloatV(0 - 25)
    /\ DocHttp[k_workers] = FloatV(25)
    /\ before.Http.Port = 80
    /\ after.Http.Port = 80
    /\ after.Http.Backlog = 5
    /\ after.Http.Workers = 2

-----------------------------------------------------------------------------
(* C19 - Permissive boolean from the environment.                          *)

\* the environment string the path debug resolves to: the bound variable's, or
\* the one of the variable named after the path when AutomaticEnv is on
EnvDebug ==
    IF IsBound(k_debug) THEN BoundValue(k_debug)
    ELSE IF autoEnv THEN Getenv(DEBUG)
    ELSE <<>>

\* C19: when the path of the boolean field Debug resolves to a non-empty
\* environment string s, Unmarshal leaves Debug true when s is "true" or "1"
\* and false for any other s, whatever Debug and the document held, and
\* returns no error.
C19_PermissiveBooleanFromEnv ==
    (Decoded /\ EnvDebug # <<>>) =>
        /\ after.Debug = (EnvDebug \in {<<"t","r","u","e">>, <<"1">>})
        /\ call.err = NoError

\* DEBUG=TRUE turns off a Debug the caller and the document both had on
C19_Witness ==
    /\ Decoded
    /\ EnvDebug = <<"T","R","U","E">>
    /\ before.Debug = TRUE
    /\ HasValue(configValues, k_debug, "bool")
    /\ configValues[k_debug].b = TRUE
    /\ after.Debug = FALSE
    /\ call.err = NoError

-----------------------------------------------------------------------------
(* C20 - An explicit binding masks the automatic mapping.                  *)

\* the path is bound to a variable that is not set or is empty, while the
\* variable AutomaticEnv derives for it holds a value
MaskedDbUrl == IsBound(key_db_url) /\ BoundValue(key_db_url) = <<>> /\ AutoDbUrl # <<>>
MaskedHttpPort ==
    IsBound(key_http_port) /\ BoundValue(key_http_port) = <<>> /\ AutoHttpPort # <<>>

\* C20: the resolver yields for a bound path the value of the bound variable
\* and nothing else; when that variable is not set or is empty and the
\* automatically derived variable is set, a successful Unmarshal leaves in the
\* field the document value, or what the field held when the document has
\* none, never the value of the derived variable.
C20_BindingMasksAutomaticEnv ==
    /\ IsBound(key_db_url) => getEnvValue(key_db_url) = BoundValue(key_db_url)
    /\ IsBound(key_http_port) => getEnvValue(key_http_port) = BoundValue(key_http_port)
    /\ (Succeeded /\ MaskedDbUrl) =>
          after.Db.URL = IF DocHasDbUrl THEN DocDbUrl ELSE before.Db.URL
    /\ (Succeeded /\ MaskedHttpPort) =>
          after.Http.Port = IF DocHasHttpPort THEN DocHttpPort ELSE before.Http.Port

\* db.url is bound to DATABASE_URL, which is not set; DB_URL is set and
\* AutomaticEnv would find it; the field holds the document value
C20_Witness ==
    /\ Succeeded
    /\ MaskedDbUrl
    /\ DATABASE_URL \notin DOMAIN env
    /\ AutoDbUrl = <<"a">>
    /\ DocHasDbUrl
    /\ before.Db.URL # DocDbUrl
    /\ after.Db.URL = DocDbUrl

-----------------------------------------------------------------------------
(* C21 - An environment value for a structure or a sequence field.         *)

\* the environment string a path without a dot resolves to: the bound
\* variable's, or the one of the variable named after the path when
\* AutomaticEnv is on
EnvFor(key, name) ==
    IF IsBound(key) THEN BoundValue(key)
    ELSE IF autoEnv THEN Getenv(name)
    ELSE <<>>

EnvHttp == EnvFor(k_http, HTTP)
EnvDb == EnvFor(k_db, <<"D","B">>)
EnvOrigins == EnvFor(k_allowed_origins, ALLOWED_ORIGINS)

\* C21: when the path of a structure field (Http, Db) or of a sequence field
\* (AllowedOrigins) resolves to a non-empty environment string, Unmarshal
\* returns no error and leaves the whole field as it was, nested fields
\* included, whatever the document and the environment hold for them, and it
\* goes on to bind the fields that follow.
C21_ContainerFieldWithEnvValueUntouched ==
    Decoded =>
        /\ call.err = NoError
        /\ EnvHttp # <<>> => after.Http = before.Http
        /\ EnvDb # <<>> => after.Db = before.Db
        /\ EnvOrigins # <<>> => after.AllowedOrigins = before.AllowedOrigins
        /\ (EnvDb = <<>> /\ DocHasDbUrl) => after.Db.URL = DocDbUrl
        /\ HasValue(configValues, k_ports, "slice")
              => Len(after.Ports) = Len(configValues[k_ports].l)

\* HTTP and HTTP_PORT are set and AutomaticEnv finds both: Http keeps the
\* caller's values, not the document's port nor the 92 of HTTP_PORT, and the
\* following Db is bound from the document
C21_Witness ==
    /\ Decoded
    /\ autoEnv
    /\ envReplacer = NewReplacer(".", "_")
    /\ Getenv(HTTP) = <<"x">>
    /\ Getenv(HTTP_PORT) = <<"9","2">>
    /\ HasMap(configValues, k_http)
    /\ DocHasHttpPort
    /\ before.Http.Port = 80
    /\ after.Http = before.Http
    /\ EnvDb = <<>>
    /\ before.Db.URL # DocDbUrl
    /\ after.Db.URL = DocDbUrl
    /\ call.err = NoError

-----------------------------------------------------------------------------
(* C22 - Width overflow is silent.                                         *)

key_db_level == <<"d","b",".","l","e","v","e","l">>

\* the number a base-10 string of the narrow fields denotes
WideNumberOf(s) ==
    CASE s = <<"3","0","0">> -> 300
      [] s = <<"2","5","6">> -> 256
      [] s = <<"4","4">> -> 44
      [] s = <<"7","0","0","0","0">> -> 70000
      [] s = <<"2","0","0">> -> 200
      [] s = <<"-","2","0","0">> -> 0 - 200
      [] s = <<"1","2","7">> -> 127

\* the low 8 bits of x read as a signed number
Signed8(x) == IF x % 256 >= 128 THEN (x % 256) - 256 ELSE x % 256

AutoHttpWorkers ==
    AutoValue(HTTP_WORKERS, <<"H","T","T","P",".","W","O","R","K","E","R","S">>)
AutoHttpBacklog ==
    AutoValue(HTTP_BACKLOG, <<"H","T","T","P",".","B","A","C","K","L","O","G">>)
AutoDbLevel == AutoValue(DB_LEVEL, <<"D","B",".","L","E","V","E","L">>)

\* the walk reaches the fields of Db
WalksDb == HasMap(configValues, k_db)

\* C22: an environment string that is a base-10 integer too large for the
\* field it is for gives no error: Unmarshal leaves in an unsigned field of w
\* bits the number modulo 2^w (300 gives 44 in 8 bits, 70000 gives 4464 in 16)
\* and in a signed field of 8 bits its low 8 bits (200 gives -56); a document
\* integer too large for the field is stored the same way.
C22_WidthOverflowIsSilent ==
    Decoded =>
        /\ call.err = NoError
        /\ WalksHttp =>
              /\ after.Http.Workers =
                    IF AutoHttpWorkers # <<>> THEN WideNumberOf(AutoHttpWorkers) % 256
                    ELSE IF HasValue(DocHttp, k_workers, "int")
                    THEN DocHttp[k_workers].n % 256
                    ELSE before.Http.Workers
              /\ after.Http.Backlog =
                    IF AutoHttpBacklog # <<>> THEN WideNumberOf(AutoHttpBacklog) % 65536
                    ELSE IF HasValue(DocHttp, k_backlog, "int")
                    THEN DocHttp[k_backlog].n % 65536
                    ELSE IF HasValue(DocHttp, k_backlog, "float64")
                    THEN DocHttp[k_backlog].tenths \div 10
                    ELSE before.Http.Backlog
        /\ WalksDb =>
              after.Db.Level =
                 IF AutoDbLevel # <<>> THEN Signed8(WideNumberOf(AutoDbLevel))
                 ELSE IF HasValue(DocDb, k_level, "int") THEN Signed8(DocDb[k_level].n)
                 ELSE before.Db.Level

\* HTTP_WORKERS=300 leaves 44 in the 8-bit Workers, the document's 70000
\* leaves 4464 in the 16-bit Backlog and its 200 leaves -56 in the signed
\* 8-bit Level, without error
C22_Witness ==
    /\ Decoded
    /\ call.err = NoError
    /\ AutoHttpWorkers = <<"3","0","0">>
    /\ AutoHttpBacklog = <<>>
    /\ AutoDbLevel = <<>>
    /\ HasValue(DocHttp, k_backlog, "int")
    /\ DocHttp[k_backlog].n = 70000
    /\ HasValue(DocDb, k_level, "int")
    /\ DocDb[k_level].n = 200
    /\ after.Http.Workers = 44
    /\ after.Http.Backlog = 4464
    /\ after.Db.Level = 0 - 56

====
